---- MODULE Spec2Model ----
(***************************************************************************)
(* Model of the remote provisioning and resilient execution core of        *)
(* tensordock_auto_deploy.py (class ComfyUIDeployer):                       *)
(*   _wait_for_ssh_available  the transport availability probe             *)
(*   wait_for_instance        the readiness poller                         *)
(*   run_remote_deployment    the resilient executor                       *)
(*   deploy_with_raw_api      the deploy flow, from the catalog to the run *)
(*   list_and_manage_instances, and --delete of tensordock_deploy.py       *)
(* Time is counted in whole seconds.  Every loop of the source reads the   *)
(* clock only as time.time() - start_time, so each loop carries its own    *)
(* elapsed-seconds counter.                                                *)
(***************************************************************************)
EXTENDS Integers, Sequences, FiniteSets, TLC

VARIABLES
    pc,              \* position of the calling flow
    \* ---- _wait_for_ssh_available
    ppc,             \* position inside the probe: idle, test, attempt, sleep, ret
    p_timeout,       \* its timeout argument
    p_elapsed,       \* time.time() - start_time
    p_attempt,       \* attempt
    p_wait,          \* wait_time of the last backoff (0 before the first)
    p_result,        \* the value returned (read when ppc = "ret")
    p_lastStart,     \* history: p_elapsed when the last handshake was started
    p_durSum,        \* history: total seconds spent inside handshake attempts
    \* ---- wait_for_instance
    w_elapsed,       \* time.time() - start_time
    response,        \* the last reply to GET instances/{id}
    ssh_host,
    ssh_port,
    w_result,        \* the tuple returned: <<>> until it returns
    \* ---- run_remote_deployment
    max_retries,
    attempt,         \* loop variable of the deployment loop
    returncode,      \* process.returncode: <<>> for None, <<rc>> for an exit code
    reboot_detected,
    silent,          \* time.time() - last_output_time while the stream is read
    orphans,         \* sessions given up after the grace period whose process still runs
    transcript,      \* history: ids of the lines the current session printed
    class,           \* history: classification of the last finished session
    outcome,         \* history: the branch through which the executor returned
    executions,      \* history: number of sessions started (Popen calls)
    events,          \* history: what the executor did, in order
    \* ---- deploy_with_raw_api
    locations,       \* the "locations" list the provider's catalog holds
    loc_i,           \* number of locations the scan loop has taken
    location_list,   \* the candidates appended so far
    selected_location_id,
    post,            \* the reply to POST instances
    d_log,           \* history: what the deploy flow did, in order
    d_fatal,         \* history: the failing branch the deploy flow took
    \* ---- list_and_manage_instances, and main --delete of tensordock_deploy.py
    entry,           \* the entry point that was invoked
    instances,       \* ids of the "data" list of the reply to GET instances
    m_idx,           \* the loop variable idx of the display and terminate loops
    instances_to_delete,
    confirm,         \* the text typed at "Type 'yes' to confirm", stripped and lowered
    deletes,         \* history: the DELETE requests sent, in order
    \* ---- the process
    exit_status      \* <<>> while it runs, <<code>> once it has ended

pvars == <<ppc, p_timeout, p_elapsed, p_attempt, p_wait, p_result, p_lastStart, p_durSum>>
wvars == <<w_elapsed, response, ssh_host, ssh_port, w_result>>
evars == <<max_retries, attempt, returncode, reboot_detected, silent, orphans, transcript, class,
           outcome, executions, events>>
dvars == <<locations, loc_i, location_list, selected_location_id, post, d_log, d_fatal>>
mvars == <<entry, instances, m_idx, instances_to_delete, confirm, deletes>>
ovars == <<dvars, mvars, exit_status>>
vars == <<pc, pvars, wvars, evars, ovars>>

None == "None"

Min(a, b) == IF a <= b THEN a ELSE b

(***************************************************************************)
(* Bounds of the model.                                                    *)
(***************************************************************************)
MaxRetriesBound == 2
MaxLines == 2
\* grace periods a session may stay silent with its stream open
MaxSilentPeriods == 2

\* seconds one handshake attempt may take (subprocess.run(..., timeout=10))
HandshakeTimeout == 10
AttemptDurations == {0, 5, HandshakeTimeout}
\* timeouts the probe is called with: the two of the source, and 60
ProbeTimeouts == {60, 120, 300}

(***************************************************************************)
(* _wait_for_ssh_available                                                 *)
(***************************************************************************)
BackoffStep == 5
BackoffCap == 20
RampAttempts == 4

WaitTimeUncapped(n) == BackoffStep * n

\* wait_time = min(5 * (attempt if attempt <= 4 else 4), 20)
WaitTime(n) == Min(BackoffStep * (IF n <= RampAttempts THEN n ELSE RampAttempts), BackoffCap)

DeadlineOpenInclusive(elapsed, timeout) == elapsed <= timeout

DeadlineOpenLate(elapsed, timeout) == elapsed - BackoffCap < timeout

\* while time.time() - start_time < timeout
DeadlineOpen(elapsed, timeout) == elapsed < timeout

ProbeIdle ==
    /\ ppc = "idle" /\ p_timeout = 0 /\ p_elapsed = 0 /\ p_attempt = 0
    /\ p_wait = 0 /\ p_result = FALSE /\ p_lastStart = 0 /\ p_durSum = 0

\* the call: start_time = time.time(); attempt = 0
ProbeCall(timeout) ==
    /\ ppc' = "test"
    /\ p_timeout' = timeout
    /\ p_elapsed' = 0
    /\ p_attempt' = 0
    /\ p_wait' = 0
    /\ p_result' = FALSE
    /\ p_lastStart' = 0
    /\ p_durSum' = 0

\* the caller takes the returned value; the locals of the call are gone
ProbeReturn ==
    /\ ppc' = "idle"
    /\ p_timeout' = 0
    /\ p_elapsed' = 0
    /\ p_attempt' = 0
    /\ p_wait' = 0
    /\ p_result' = FALSE
    /\ p_lastStart' = 0
    /\ p_durSum' = 0

\* the loop test; on entry attempt += 1, on exit return False
PTest ==
    /\ ppc = "test"
    /\ IF DeadlineOpen(p_elapsed, p_timeout)
       THEN /\ ppc' = "attempt"
            /\ p_attempt' = p_attempt + 1
            /\ p_lastStart' = p_elapsed
            /\ UNCHANGED p_result
       ELSE /\ ppc' = "ret"
            /\ p_result' = FALSE
            /\ UNCHANGED <<p_attempt, p_lastStart>>
    /\ UNCHANGED <<p_timeout, p_elapsed, p_wait, p_durSum>>
    /\ UNCHANGED <<pc, wvars, evars, ovars>>

\* one handshake: subprocess.run(ssh_test_cmd, timeout=10); success returns True,
\* a failure or an exception computes wait_time and goes to sleep
PAttempt ==
    /\ ppc = "attempt"
    /\ \E d \in AttemptDurations, ok \in BOOLEAN :
        /\ p_elapsed' = p_elapsed + d
        /\ p_durSum' = p_durSum + d
        /\ IF ok
           THEN /\ ppc' = "ret"
                /\ p_result' = TRUE
                /\ UNCHANGED p_wait
           ELSE /\ ppc' = "sleep"
                /\ p_wait' = WaitTime(p_attempt)
                /\ UNCHANGED p_result
    /\ UNCHANGED <<p_timeout, p_attempt, p_lastStart>>
    /\ UNCHANGED <<pc, wvars, evars, ovars>>

\* time.sleep(wait_time)
PSleep ==
    /\ ppc = "sleep"
    /\ p_elapsed' = p_elapsed + p_wait
    /\ ppc' = "test"
    /\ UNCHANGED <<p_timeout, p_attempt, p_wait, p_result, p_lastStart, p_durSum>>
    /\ UNCHANGED <<pc, wvars, evars, ovars>>

ProbeNext == PTest \/ PAttempt \/ PSleep

(***************************************************************************)
(* wait_for_instance                                                       *)
(***************************************************************************)
MaxWait == 300
PollInterval == 10
ReadyProbeTimeout == 120
SshInternalPort == "22"

\* seconds one status request may take
ReqDurations == {0, 5}

Statuses == {"creating", "running", "error", "terminated", "unknown"}
Addresses == {None, "", "203.0.113.7"}
PF(internal, external) == [internal_port |-> internal, external_port |-> external]
PortForwardLists ==
    { <<>>,
      <<PF("22", "20022")>>,
      <<PF("8188", "8188")>>,
      <<PF("8188", "8188"), PF("22", "20022")>>,
      <<PF("22", "20022"), PF("22", "20023")>> }

NoResponse == [code |-> 0, status |-> None, ipAddress |-> None, portForwards |-> <<>>]
ErrorResponse == [code |-> 500, status |-> None, ipAddress |-> None, portForwards |-> <<>>]
Responses ==
    {ErrorResponse} \cup
    [code : {200}, status : Statuses, ipAddress : Addresses, portForwards : PortForwardLists]

\* if ssh_host:
Truthy(x) == x \notin {None, ""}

\* the for ... else over data.get("portForwards"): the external port of the first
\* mapping whose internal_port is 22, None when there is none
FindSshPort(pfs) ==
    LET hits == {i \in 1..Len(pfs) : pfs[i].internal_port = SshInternalPort}
    IN  IF hits = {} THEN None
        ELSE pfs[CHOOSE i \in hits : \A j \in hits : i <= j].external_port

IsRunningOrCreating(status) == status \in {"running", "creating"}

\* if status == "running":
IsRunning(status) == status = "running"

\* while time.time() - start_time < max_wait; on exit return None, None
WTest ==
    /\ pc = "w_test"
    /\ IF w_elapsed < MaxWait
       THEN /\ pc' = "w_get"
            /\ UNCHANGED w_result
       ELSE /\ pc' = "w_ret"
            /\ w_result' = <<None, None>>
    /\ UNCHANGED <<w_elapsed, response, ssh_host, ssh_port>>
    /\ UNCHANGED <<pvars, evars, ovars>>

\* response = requests.get(instance_url); on 200 and status running the endpoint
\* is read and, when ssh_host is set, the probe is called with timeout=120
WGet ==
    /\ pc = "w_get"
    /\ \E r \in Responses, d \in ReqDurations :
        /\ response' = r
        /\ w_elapsed' = w_elapsed + d
        /\ IF r.code = 200 /\ IsRunning(r.status)
           THEN /\ ssh_host' = r.ipAddress
                /\ ssh_port' = FindSshPort(r.portForwards)
                /\ IF Truthy(r.ipAddress)
                   THEN /\ pc' = "w_probe"
                        /\ ProbeCall(ReadyProbeTimeout)
                   ELSE /\ pc' = "w_sleep"
                        /\ UNCHANGED pvars
           ELSE /\ pc' = "w_sleep"
                /\ UNCHANGED <<ssh_host, ssh_port, pvars>>
    /\ UNCHANGED <<w_result, evars, ovars>>

\* the probe returned: return ssh_host, ssh_port or return None, None
WProbeRet ==
    /\ pc = "w_probe"
    /\ ppc = "ret"
    /\ pc' = "w_ret"
    /\ w_result' = IF p_result THEN <<ssh_host, ssh_port>> ELSE <<None, None>>
    /\ ProbeReturn
    /\ UNCHANGED <<w_elapsed, response, ssh_host, ssh_port>>
    /\ UNCHANGED <<evars, ovars>>

AfterSleepNoTime(elapsed, seconds) == elapsed

\* the clock after time.sleep(seconds)
AfterSleep(elapsed, seconds) == elapsed + seconds

\* time.sleep(10)
WSleep ==
    /\ pc = "w_sleep"
    /\ w_elapsed' = AfterSleep(w_elapsed, PollInterval)
    /\ pc' = "w_test"
    /\ UNCHANGED <<response, ssh_host, ssh_port, w_result>>
    /\ UNCHANGED <<pvars, evars, ovars>>

WaitNext == WTest \/ WGet \/ WProbeRet \/ WSleep \/ ProbeNext

(***************************************************************************)
(* run_remote_deployment: the lines a session may print.  A line is the    *)
(* sequence of its characters.                                             *)
(***************************************************************************)
TextSysDown == <<"S","y","s","t","e","m"," ","i","s"," ","g","o","i","n","g"," ","d","o","w","n"," ","f","o","r"," ","r","e","b","o","o","t">>
TextRebooting == <<"R","e","b","o","o","t","i","n","g"," ","n","o","w"," ","t","o"," ","l","o","a","d"," ","t","h","e"," ","n","e","w"," ","k","e","r","n","e","l">>
TextUpper == <<"R","E","B","O","O","T","I","N","G">>
TextWarn == <<"W","A","R","N","I","N","G",":"," ","r","e","b","o","o","t"," ","m","a","y"," ","b","e"," ","r","e","q","u","i","r","e","d">>
TextDone == <<"S","e","t","u","p"," ","c","o","m","p","l","e","t","e">>

LineIds == {"sysdown", "rebooting", "upper", "warn", "done"}
LineText(id) ==
    CASE id = "sysdown" -> TextSysDown
      [] id = "rebooting" -> TextRebooting
      [] id = "upper" -> TextUpper
      [] id = "warn" -> TextWarn
      [] id = "done" -> TextDone

UpperCase == <<"A","B","C","D","E","F","G","H","I","J","K","L","M","N","O","P","Q","R","S","T","U","V","W","X","Y","Z">>
LowerCase == <<"a","b","c","d","e","f","g","h","i","j","k","l","m","n","o","p","q","r","s","t","u","v","w","x","y","z">>

\* str.lower()
LowerChar(c) ==
    IF \E i \in 1..Len(UpperCase) : UpperCase[i] = c
    THEN LowerCase[CHOOSE i \in 1..Len(UpperCase) : UpperCase[i] = c]
    ELSE c
Lower(line) == [i \in 1..Len(line) |-> LowerChar(line[i])]

\* needle in hay
Contains(hay, needle) ==
    \E i \in 1..(Len(hay) - Len(needle) + 1) : SubSeq(hay, i, i + Len(needle) - 1) = needle

PatRebooting == <<"r","e","b","o","o","t","i","n","g">>
PatGoingDown == <<"s","y","s","t","e","m"," ","i","s"," ","g","o","i","n","g"," ","d","o","w","n">>

IsRebootIndicatorCaseSensitive(line) ==
    Contains(line, PatRebooting) \/ Contains(line, PatGoingDown)

\* "rebooting" in line.lower() or "system is going down" in line.lower()
IsRebootIndicator(line) ==
    Contains(Lower(line), PatRebooting) \/ Contains(Lower(line), PatGoingDown)

(***************************************************************************)
(* run_remote_deployment                                                   *)
(***************************************************************************)
SshDisconnectCode == 255
RebootProbeTimeout == 300
GracePeriod == 30

\* exit codes of the ssh process; the upload's scp exit codes
ExitCodes == {0, 1, 127, 255}
ScpExitCodes == {0, 1}

ExitCodeOfFalsy(rc) == IF rc = <<>> \/ rc = <<0>> THEN -1 ELSE rc[1]

\* exit_code = process.returncode if process.returncode is not None else -1
ExitCodeOf(rc) == IF rc = <<>> THEN -1 ELSE rc[1]

ClassifyAnyNonZero(exit_code, rd) ==
    IF exit_code = 0 THEN "Succeeded" ELSE "Disconnected"

\* the if / elif / else over exit_code and reboot_detected
Classify(exit_code, rd) ==
    IF exit_code = 0 THEN "Succeeded"
    ELSE IF exit_code = SshDisconnectCode \/ rd THEN "Disconnected"
    ELSE "ScriptFailed"

MayRetryAlways(cls, att, maxr) == cls = "Disconnected"

MayRetryBlind(cls, att, maxr) == cls # "Succeeded" /\ att < maxr

MayRetryOffByOne(cls, att, maxr) == cls = "Disconnected" /\ att <= maxr

\* the branch that waits and re-probes: a disconnect with attempt < max_retries
MayRetry(cls, att, maxr) == cls = "Disconnected" /\ att < maxr

ReprobeIgnored(r) == TRUE

\* if self._wait_for_ssh_available(host, port, timeout=300):
ReprobeSucceeded(r) == r

LoopBoundShort(maxr) == maxr

\* range(max_retries + 1)
LoopBound(maxr) == maxr + 1

ScpFailedNever(rc) == FALSE

\* if result.returncode != 0
ScpFailed(rc) == rc # 0

\* subprocess.run(scp_cmd): a non-zero exit returns at once
EUpload ==
    /\ pc = "e_upload"
    /\ \E rc \in ScpExitCodes :
        /\ events' = events \o (IF rc = 0 THEN <<"upload">> ELSE <<"upload", "scp_error">>)
        /\ IF ScpFailed(rc)
           THEN /\ pc' = "e_ret"
                /\ outcome' = "UploadFailed"
           ELSE /\ pc' = "e_for"
                /\ UNCHANGED outcome
    /\ UNCHANGED <<orphans, max_retries, attempt, returncode, reboot_detected, silent, transcript,
                   class, executions>>
    /\ UNCHANGED <<pvars, wvars, ovars>>

\* for attempt in range(max_retries + 1): the next index, or the fall-through
\* after the loop
EFor ==
    /\ pc = "e_for"
    /\ IF attempt + 1 < LoopBound(max_retries)
       THEN /\ attempt' = attempt + 1
            /\ pc' = "e_popen"
            /\ UNCHANGED outcome
       ELSE /\ pc' = "e_ret"
            /\ outcome' = "LoopCompleted"
            /\ UNCHANGED attempt
    /\ UNCHANGED <<orphans, max_retries, returncode, reboot_detected, silent, transcript, class,
                   executions, events>>
    /\ UNCHANGED <<pvars, wvars, ovars>>

\* process = subprocess.Popen(ssh_cmd, ...); last_output_time = time.time();
\* reboot_detected = False
EPopen ==
    /\ pc = "e_popen"
    /\ pc' = "e_stream"
    /\ returncode' = <<>>
    /\ reboot_detected' = FALSE
    /\ silent' = 0
    /\ transcript' = <<>>
    /\ executions' = executions + 1
    /\ events' = Append(events, "exec")
    /\ UNCHANGED <<orphans, max_retries, attempt, class, outcome>>
    /\ UNCHANGED <<pvars, wvars, ovars>>

FlagAfterLineLastWins(flag, line) == IsRebootIndicator(line)

\* if <indicator in line.lower()>: reboot_detected = True; nothing sets it to False
FlagAfterLine(flag, line) == flag \/ IsRebootIndicator(line)

\* one turn of: for line in process.stdout; last_output_time = time.time()
EReadLine ==
    /\ pc = "e_stream"
    /\ Len(transcript) < MaxLines
    /\ silent' = 0
    /\ \E l \in LineIds :
        /\ transcript' = Append(transcript, l)
        /\ reboot_detected' = FlagAfterLine(reboot_detected, LineText(l))
    /\ UNCHANGED <<pc, orphans, max_retries, attempt, returncode, class, outcome, executions, events>>
    /\ UNCHANGED <<pvars, wvars, ovars>>

\* the stream stays open and delivers nothing for another 30 seconds: the
\* iteration over process.stdout is blocked in its read and nothing else runs
ESilence ==
    /\ pc = "e_stream"
    /\ silent < MaxSilentPeriods * GracePeriod
    /\ silent' = silent + GracePeriod
    /\ UNCHANGED <<pc, orphans, max_retries, attempt, returncode, reboot_detected, transcript, class,
                   outcome, executions, events>>
    /\ UNCHANGED <<pvars, wvars, ovars>>

\* end of the stream, then process.wait(timeout=30): the process ends with an
\* exit code, or TimeoutExpired is caught and sets reboot_detected
EWait ==
    /\ pc = "e_stream"
    /\ pc' = "e_classify"
    /\ silent' = 0
    /\ \/ /\ \E rc \in ExitCodes : returncode' = <<rc>>
          /\ UNCHANGED <<reboot_detected, orphans>>
       \/ \* TimeoutExpired: the process is left as it is and the flow goes on
          /\ reboot_detected' = TRUE
          /\ orphans' = orphans + 1
          /\ UNCHANGED returncode
    /\ UNCHANGED <<max_retries, attempt, transcript, class, outcome, executions, events>>
    /\ UNCHANGED <<pvars, wvars, ovars>>

\* the exit scenarios: success returns, a disconnect retries while
\* attempt < max_retries and returns otherwise, another exit code returns
EClassify ==
    /\ pc = "e_classify"
    /\ LET exit_code == ExitCodeOf(returncode)
           cls == Classify(exit_code, reboot_detected)
       IN  /\ class' = cls
           /\ events' = Append(events, cls)
           /\ IF cls = "Succeeded"
              THEN /\ pc' = "e_ret"
                   /\ outcome' = "Succeeded"
              ELSE IF MayRetry(cls, attempt, max_retries)
              THEN /\ pc' = "e_settle"
                   /\ UNCHANGED outcome
              ELSE /\ pc' = "e_ret"
                   /\ outcome' = IF cls = "Disconnected" THEN "RetriesExhausted"
                                 ELSE "ScriptFailed"
    /\ UNCHANGED <<orphans, max_retries, attempt, returncode, reboot_detected, silent, transcript, executions>>
    /\ UNCHANGED <<pvars, wvars, ovars>>

\* time.sleep(10), then the call of the probe with timeout=300
ESettle ==
    /\ pc = "e_settle"
    /\ pc' = "e_probe"
    /\ ProbeCall(RebootProbeTimeout)
    /\ events' = events \o <<"settle", "probe">>
    /\ transcript' = <<>>
    /\ UNCHANGED <<orphans, max_retries, attempt, returncode, reboot_detected, silent, class, outcome, executions>>
    /\ UNCHANGED <<wvars, ovars>>

\* the probe returned: continue with the next iteration, or return
EProbeRet ==
    /\ pc = "e_probe"
    /\ ppc = "ret"
    /\ ProbeReturn
    /\ events' = Append(events, IF p_result THEN "probe_ok" ELSE "probe_timeout")
    /\ IF ReprobeSucceeded(p_result)
       THEN /\ pc' = "e_for"
            /\ UNCHANGED outcome
       ELSE /\ pc' = "e_ret"
            /\ outcome' = "ReprobeTimedOut"
    /\ UNCHANGED <<orphans, max_retries, attempt, returncode, reboot_detected, silent, transcript, class, executions>>
    /\ UNCHANGED <<wvars, ovars>>

\* a process that was left running ends by itself
EOrphanExit ==
    /\ orphans > 0
    /\ orphans' = orphans - 1
    /\ UNCHANGED <<pc, max_retries, attempt, returncode, reboot_detected, silent, transcript,
                   class, outcome, executions, events>>
    /\ UNCHANGED <<pvars, wvars, ovars>>

ExecNext ==
    EUpload \/ EFor \/ EPopen \/ EReadLine \/ ESilence \/ EWait \/ EClassify \/ ESettle
    \/ EProbeRet \/ EOrphanExit
    \/ ProbeNext

(***************************************************************************)
(* deploy_with_raw_api and main --deploy: the catalog scan, the operator's *)
(* choice, the creation request, the readiness wait and the remote run.    *)
(***************************************************************************)
MaxLocations == 2
DefaultMaxRetries == 1

\* v0Name values the catalog may carry, as the characters of the name
NameLower4090 == <<"g","e","f","o","r","c","e","r","t","x","4","0","9","0","-","p","c","i","e","-","2","4","g","b">>
NameUpper4090 == <<"R","T","X"," ","4","0","9","0">>
Name3090 == <<"g","e","f","o","r","c","e","r","t","x","3","0","9","0","-","p","c","i","e","-","2","4","g","b">>
Pat4090 == <<"4","0","9","0">>
PatRtx4090 == <<"r","t","x","4","0","9","0">>

GpuNames == {"lower4090", "upper4090", "lower3090"}
GpuNameText(id) ==
    CASE id = "lower4090" -> NameLower4090
      [] id = "upper4090" -> NameUpper4090
      [] id = "lower3090" -> Name3090

Gpu(name, count, pf) ==
    [v0Name |-> name, max_count |-> count, port_forwarding_available |-> pf]

\* the gpus lists a location of the catalog may carry
GpuLists ==
    { <<>>,
      <<Gpu("lower4090", 3, TRUE)>>,
      <<Gpu("upper4090", 2, TRUE)>>,
      <<Gpu("lower4090", 0, TRUE)>>,
      <<Gpu("lower4090", 3, FALSE)>>,
      <<Gpu("lower3090", 5, TRUE)>>,
      <<Gpu("lower4090", 3, TRUE), Gpu("upper4090", 2, TRUE)>>,
      <<Gpu("lower3090", 5, TRUE), Gpu("lower4090", 3, TRUE)>> }

LocationIds == <<"loc1", "loc2", "loc3", "loc4">>

\* the catalogs of at most n locations; a location's id is its own
Catalogs(n) ==
    UNION { { [i \in 1..k |-> [id |-> LocationIds[i], gpus |-> g[i]]] : g \in [1..k -> GpuLists] }
            : k \in 0..n }

\* max_count > 0 and ("4090" in gpu_name.lower() or "rtx4090" in gpu_name.lower())
\* and port_forwarding_available
IsCandidateGpu(gpu) ==
    /\ gpu.max_count > 0
    /\ \/ Contains(Lower(GpuNameText(gpu.v0Name)), Pat4090)
       \/ Contains(Lower(GpuNameText(gpu.v0Name)), PatRtx4090)
    /\ gpu.port_forwarding_available

\* for gpu in gpus: one entry appended for every gpu that passes the test
ScanGpus(location) ==
    LET hits == SelectSeq(location.gpus, IsCandidateGpu)
    IN  [i \in 1..Len(hits) |-> [id |-> location.id, gpu_model |-> hits[i].v0Name]]

\* location_list[k] of Python for a zero-based k: a negative k counts from the end
PyIndexValid(seq, k) == -Len(seq) <= k /\ k < Len(seq)
PyIndexFirstLocation(seq, k) == locations[1]
PyIndex(seq, k) == IF k >= 0 THEN seq[k + 1] ELSE seq[Len(seq) + k + 1]

\* the reply to POST instances: its status code, whether the body has a "data"
\* object, whether data.error is set, whether the top-level error is set
NoPost == [code |-> 0, hasData |-> FALSE, dataError |-> FALSE, topError |-> FALSE]
PostCodes == {200, 400}
PostResponses ==
    { r \in [code : PostCodes, hasData : BOOLEAN, dataError : BOOLEAN, topError : BOOLEAN] :
        r.dataError => r.hasData }

\* response.json().get("data").get("error"): None has no get
PostRaises(r) == ~r.hasData

PostFailedNever(r) == FALSE

\* the test of line 348 when "data" is there
PostFailed(r) == r.dataError \/ r.topError \/ r.code >= 400

\* the process ends with an exit code
MainExit(code) ==
    /\ pc' = "done"
    /\ exit_status' = <<code>>

\* the function returns to main, and main ends: the process exits with 0
MainReturn == MainExit(0)

\* an exception nobody catches: traceback, and the process exits with 1
MainRaise == MainExit(1)

\* requests.get(locations_url): anything but 200 returns None
DGet ==
    /\ pc = "d_get"
    /\ \E code \in {200, 500} :
        IF code # 200
        THEN /\ d_log' = d_log \o <<"get_locations", "CatalogUnavailable">>
             /\ d_fatal' = "CatalogUnavailable"
             /\ MainReturn
        ELSE /\ d_log' = Append(d_log, "get_locations")
             /\ pc' = "d_scan"
             /\ UNCHANGED <<d_fatal, exit_status>>
    /\ UNCHANGED <<locations, loc_i, location_list, selected_location_id, post>>
    /\ UNCHANGED <<pvars, wvars, evars, mvars>>

\* for location in locations: the gpus of the next location are scanned, and the
\* operator is asked as soon as the list is not empty
DScan ==
    /\ pc = "d_scan"
    /\ IF loc_i < Len(locations)
       THEN /\ loc_i' = loc_i + 1
            /\ location_list' = location_list \o ScanGpus(locations[loc_i + 1])
            /\ pc' = IF Len(location_list') > 0 /\ selected_location_id = None
                     THEN "d_prompt" ELSE "d_scan"
       ELSE /\ pc' = "d_check"
            /\ UNCHANGED <<loc_i, location_list>>
    /\ UNCHANGED <<locations, selected_location_id, post, d_log, d_fatal, exit_status>>
    /\ UNCHANGED <<pvars, wvars, evars, mvars>>

\* the two questions asked inside the loop: the number of the location, then y/n
DPrompt ==
    /\ pc = "d_prompt"
    /\ \/ \* 'q'
          /\ d_log' = Append(d_log, "cancelled")
          /\ MainReturn
          /\ UNCHANGED selected_location_id
       \/ \* not a number: int(user_input) raises ValueError
          /\ d_log' = Append(d_log, "crash")
          /\ MainRaise
          /\ UNCHANGED selected_location_id
       \/ \E n \in 0..(Len(location_list) + 1), yn \in {"y", "n"} :
            LET selected_location_index == n - 1 IN
            IF ~PyIndexValid(location_list, selected_location_index)
            THEN \* location_list[selected_location_index] raises IndexError
                 /\ d_log' = Append(d_log, "crash")
                 /\ MainRaise
                 /\ UNCHANGED selected_location_id
            ELSE IF yn = "y"
                 THEN /\ selected_location_id' =
                             PyIndex(location_list, selected_location_index).id
                      /\ pc' = "d_check"
                      /\ d_log' = Append(d_log, "selected")
                      /\ UNCHANGED exit_status
                 ELSE /\ pc' = "d_scan"
                      /\ UNCHANGED <<selected_location_id, d_log, exit_status>>
    /\ UNCHANGED <<locations, loc_i, location_list, post, d_fatal>>
    /\ UNCHANGED <<pvars, wvars, evars, mvars>>

\* if not selected_location_id: return None
DCheck ==
    /\ pc = "d_check"
    /\ IF selected_location_id = None
       THEN /\ d_log' = Append(d_log, "no_location")
            /\ MainReturn
       ELSE /\ pc' = "d_create"
            /\ UNCHANGED <<d_log, exit_status>>
    /\ UNCHANGED <<locations, loc_i, location_list, selected_location_id, post, d_fatal>>
    /\ UNCHANGED <<pvars, wvars, evars, mvars>>

\* the call of wait_for_instance: start_time = time.time()
WaitCall ==
    /\ pc' = "w_test"
    /\ w_elapsed' = 0
    /\ response' = NoResponse
    /\ ssh_host' = None
    /\ ssh_port' = None
    /\ w_result' = <<>>

\* the caller takes the returned tuple; the locals of the call are gone
WaitReturn ==
    /\ w_elapsed' = 0
    /\ response' = NoResponse
    /\ ssh_host' = None
    /\ ssh_port' = None
    /\ w_result' = <<>>

\* the call of run_remote_deployment(ssh_host, ssh_port)
ExecCall(maxr) ==
    /\ pc' = "e_upload"
    /\ max_retries' = maxr
    /\ attempt' = -1
    /\ returncode' = <<>>
    /\ reboot_detected' = FALSE
    /\ silent' = 0
    /\ orphans' = 0
    /\ transcript' = <<>>
    /\ class' = "none"
    /\ outcome' = "none"
    /\ executions' = 0
    /\ events' = <<>>

\* requests.post(deploy_url) and the test of its reply; an accepted reply is
\* written to server_info.json before wait_for_instance is called
DCreate ==
    /\ pc = "d_create"
    /\ \E r \in PostResponses :
        /\ post' = r
        /\ IF PostRaises(r)
           THEN /\ d_log' = d_log \o <<"post", "crash">>
                /\ MainRaise
                /\ UNCHANGED <<d_fatal, wvars>>
           ELSE IF PostFailed(r)
                THEN /\ d_log' = d_log \o <<"post", "ProvisionRejected">>
                     /\ d_fatal' = "ProvisionRejected"
                     /\ MainReturn
                     /\ UNCHANGED wvars
                ELSE /\ d_log' = d_log \o <<"post", "snapshot", "wait">>
                     /\ WaitCall
                     /\ UNCHANGED <<d_fatal, exit_status>>
    /\ UNCHANGED <<locations, loc_i, location_list, selected_location_id>>
    /\ UNCHANGED <<pvars, evars, mvars>>

\* ssh_host, ssh_port = self.wait_for_instance(...); if not ssh_host: return result;
\* otherwise the operator is asked whether to run the deployment script
DWaitRet ==
    /\ pc = "w_ret"
    /\ WaitReturn
    /\ IF ~Truthy(w_result[1])
       THEN /\ d_log' = Append(d_log, "not_ready")
            /\ d_fatal' = "NoConnectionDetails"
            /\ MainReturn
            /\ UNCHANGED evars
       ELSE \E yn \in {"y", "n"} :
              IF yn = "y"
              THEN /\ d_log' = d_log \o <<"ready", "run">>
                   /\ ExecCall(DefaultMaxRetries)
                   /\ UNCHANGED <<d_fatal, exit_status>>
              ELSE /\ d_log' = d_log \o <<"ready", "not_run">>
                   /\ MainReturn
                   /\ UNCHANGED <<d_fatal, evars>>
    /\ UNCHANGED <<locations, loc_i, location_list, selected_location_id, post>>
    /\ UNCHANGED <<pvars, mvars>>

\* run_remote_deployment has returned: deploy_with_raw_api returns result, and
\* main ends
DExecRet ==
    /\ pc = "e_ret"
    /\ d_log' = Append(d_log, outcome)
    /\ d_fatal' = IF outcome = "Succeeded" THEN d_fatal ELSE outcome
    /\ MainReturn
    /\ UNCHANGED <<locations, loc_i, location_list, selected_location_id, post>>
    /\ UNCHANGED <<pvars, wvars, evars, mvars>>

CatalogNext == DGet \/ DScan \/ DPrompt \/ DCheck

DeployNext == CatalogNext \/ DCreate \/ DWaitRet \/ DExecRet \/ WaitNext \/ ExecNext

(***************************************************************************)
(* list_and_manage_instances (main --list), and main --delete of           *)
(* tensordock_deploy.py with delete_server.                                *)
(***************************************************************************)
MaxInstances == 2
MaxSelections == 2

InstanceIds == <<"i1", "i2", "i3", "i4">>

\* status codes a DELETE may be answered with
DeleteCodes == {200, 204, 404, 500}

\* what the operator may type at the confirmation, stripped
TextYes == <<"y","e","s">>
ConfirmTexts == {<<"y","e","s">>, <<"Y","E","S">>, <<"y">>, <<"n","o">>, <<>>}

\* the comma-separated numbers the operator may type
SelectionLists(n) == UNION { [1..k -> 0..(n + 1)] : k \in 1..MaxSelections }

\* for idx in selections: if 1 <= idx <= len(instances): append instances[idx - 1]
SelectInstances(insts, selections) ==
    LET ok == SelectSeq(selections, LAMBDA idx : 1 <= idx /\ idx <= Len(insts))
    IN  [i \in 1..Len(ok) |-> insts[ok[i]]]

\* response.status_code in [200, 204]
DeleteSucceeded(code) == code \in {200, 204}

\* requests.get(instances_url): not 200, or an empty list, returns
MList ==
    /\ pc = "m_list"
    /\ \E code \in {200, 500}, n \in 0..MaxInstances :
        IF code # 200 \/ n = 0
        THEN /\ MainReturn
             /\ UNCHANGED instances
        ELSE /\ instances' = [i \in 1..n |-> InstanceIds[i]]
             /\ pc' = "m_show"
             /\ UNCHANGED exit_status
    /\ UNCHANGED <<entry, m_idx, instances_to_delete, confirm, deletes>>
    /\ UNCHANGED <<pvars, wvars, evars, dvars>>

\* the display loop: one GET per instance; instance_data.get("portForwards")[0]
\* raises when the detail has no port forward
MShow ==
    /\ pc = "m_show"
    /\ IF m_idx < Len(instances)
       THEN \E hasPortForward \in BOOLEAN :
              IF hasPortForward
              THEN /\ m_idx' = m_idx + 1
                   /\ UNCHANGED <<pc, exit_status>>
              ELSE /\ MainRaise
                   /\ UNCHANGED m_idx
       ELSE /\ pc' = "m_select"
            /\ UNCHANGED <<m_idx, exit_status>>
    /\ UNCHANGED <<entry, instances, instances_to_delete, confirm, deletes>>
    /\ UNCHANGED <<pvars, wvars, evars, dvars>>

\* the numbers to terminate: 'q', a text that is not a list of numbers, or numbers
MSelect ==
    /\ pc = "m_select"
    /\ \/ \* 'q', or int() raises ValueError: "Invalid input"
          /\ MainReturn
          /\ UNCHANGED instances_to_delete
       \/ \E selections \in SelectionLists(Len(instances)) :
            /\ instances_to_delete' = SelectInstances(instances, selections)
            /\ IF instances_to_delete' = <<>>
               THEN MainReturn
               ELSE pc' = "m_confirm" /\ UNCHANGED exit_status
    /\ UNCHANGED <<entry, instances, m_idx, confirm, deletes>>
    /\ UNCHANGED <<pvars, wvars, evars, dvars>>

\* confirm = input("Type 'yes' to confirm: ").strip().lower()
MConfirm ==
    /\ pc = "m_confirm"
    /\ \E text \in ConfirmTexts :
        /\ confirm' = Lower(text)
        /\ IF confirm' # TextYes
           THEN /\ MainReturn
                /\ UNCHANGED m_idx
           ELSE /\ pc' = "m_delete"
                /\ m_idx' = 0
                /\ UNCHANGED exit_status
    /\ UNCHANGED <<entry, instances, instances_to_delete, deletes>>
    /\ UNCHANGED <<pvars, wvars, evars, dvars>>

\* the terminate loop with a break after a DELETE that was not answered 200 or 204
MDeleteStopOnFailure ==
    /\ pc = "m_delete"
    /\ IF m_idx < Len(instances_to_delete)
       THEN \E code \in DeleteCodes :
              /\ deletes' = Append(deletes, [id |-> instances_to_delete[m_idx + 1],
                                             code |-> code,
                                             ok |-> DeleteSucceeded(code)])
              /\ m_idx' = m_idx + 1
              /\ IF DeleteSucceeded(code)
                 THEN UNCHANGED <<pc, exit_status>>
                 ELSE MainReturn
       ELSE /\ MainReturn
            /\ UNCHANGED <<m_idx, deletes>>
    /\ UNCHANGED <<entry, instances, instances_to_delete, confirm>>
    /\ UNCHANGED <<pvars, wvars, evars, dvars>>

\* the terminate loop: one DELETE per selected instance, whatever the last
\* one was answered with
MDelete ==
    /\ pc = "m_delete"
    /\ IF m_idx < Len(instances_to_delete)
       THEN /\ \E code \in DeleteCodes :
                 deletes' = Append(deletes, [id |-> instances_to_delete[m_idx + 1],
                                             code |-> code,
                                             ok |-> DeleteSucceeded(code)])
            /\ m_idx' = m_idx + 1
            /\ UNCHANGED <<pc, exit_status>>
       ELSE /\ MainReturn
            /\ UNCHANGED <<m_idx, deletes>>
    /\ UNCHANGED <<entry, instances, instances_to_delete, confirm>>
    /\ UNCHANGED <<pvars, wvars, evars, dvars>>

\* tensordock_deploy.py main: elif args.delete: deployer.server_id = args.delete;
\* deployer.delete_server().  _make_request sends the DELETE, and sys.exit(1)
\* when raise_for_status raises
XDelete ==
    /\ pc = "x_delete"
    /\ \E server_id \in {"", InstanceIds[1]} :
        IF ~Truthy(server_id)
        THEN /\ MainReturn
             /\ UNCHANGED deletes
        ELSE \E code \in DeleteCodes :
               /\ deletes' = Append(deletes, [id |-> server_id, code |-> code, ok |-> code < 400])
               /\ IF code >= 400 THEN MainExit(1) ELSE MainReturn
    /\ UNCHANGED <<entry, instances, m_idx, instances_to_delete, confirm>>
    /\ UNCHANGED <<pvars, wvars, evars, dvars>>

ManageNext == MList \/ MShow \/ MSelect \/ MConfirm \/ MDelete \/ XDelete

(***************************************************************************)
(* Initial values of the parts a specification does not use.               *)
(***************************************************************************)
WaitIdle ==
    /\ w_elapsed = 0 /\ response = NoResponse /\ ssh_host = None /\ ssh_port = None
    /\ w_result = <<>>

ExecIdle ==
    /\ max_retries = 0 /\ attempt = -1 /\ returncode = <<>>
    /\ reboot_detected = FALSE /\ silent = 0 /\ orphans = 0 /\ transcript = <<>> /\ class = "none"
    /\ outcome = "none" /\ executions = 0 /\ events = <<>>

DeployIdle ==
    /\ locations = <<>> /\ loc_i = 0 /\ location_list = <<>>
    /\ selected_location_id = None /\ post = NoPost /\ d_log = <<>> /\ d_fatal = "none"

ManageIdle ==
    /\ instances = <<>> /\ m_idx = 0 /\ instances_to_delete = <<>>
    /\ confirm = <<>> /\ deletes = <<>>

OtherIdle ==
    /\ DeployIdle
    /\ ManageIdle
    /\ entry = "none"
    /\ exit_status = <<>>

(***************************************************************************)
(* The probe on its own: one call with each timeout.                       *)
(***************************************************************************)
InitProbe ==
    /\ pc = "probe"
    /\ ppc = "test"
    /\ p_timeout \in ProbeTimeouts
    /\ p_elapsed = 0 /\ p_attempt = 0 /\ p_wait = 0 /\ p_result = FALSE
    /\ p_lastStart = 0 /\ p_durSum = 0
    /\ WaitIdle
    /\ ExecIdle
    /\ OtherIdle

SpecProbe == InitProbe /\ [][ProbeNext]_vars

(***************************************************************************)
(* wait_for_instance, called with the default max_wait.                    *)
(***************************************************************************)
InitWait ==
    /\ pc = "w_test"
    /\ ProbeIdle
    /\ WaitIdle
    /\ ExecIdle
    /\ OtherIdle

SpecWait == InitWait /\ [][WaitNext]_vars

(***************************************************************************)
(* Both polling loops under a scheduler that keeps the process running:    *)
(* one call of the probe with each timeout, or one call of                 *)
(* wait_for_instance.                                                      *)
(***************************************************************************)
InitPoll == InitProbe \/ InitWait

SpecPollLive == InitPoll /\ [][WaitNext]_vars /\ WF_vars(WaitNext)

(***************************************************************************)
(* run_remote_deployment, called with each max_retries up to the bound.    *)
(***************************************************************************)
InitExec ==
    /\ pc = "e_upload"
    /\ ProbeIdle
    /\ WaitIdle
    /\ max_retries \in (-1)..MaxRetriesBound
    /\ attempt = -1 /\ returncode = <<>>
    /\ reboot_detected = FALSE /\ silent = 0 /\ orphans = 0 /\ transcript = <<>> /\ class = "none"
    /\ outcome = "none" /\ executions = 0 /\ events = <<>>
    /\ OtherIdle

SpecExec == InitExec /\ [][ExecNext]_vars

(***************************************************************************)
(* The catalog scan of deploy_with_raw_api, up to the creation request,    *)
(* over every catalog of at most MaxLocations locations.                   *)
(***************************************************************************)
InitCatalog ==
    /\ pc = "d_get"
    /\ ProbeIdle
    /\ WaitIdle
    /\ ExecIdle
    /\ locations \in Catalogs(MaxLocations)
    /\ loc_i = 0 /\ location_list = <<>>
    /\ selected_location_id = None /\ post = NoPost /\ d_log = <<>> /\ d_fatal = "none"
    /\ ManageIdle
    /\ entry = "deploy"
    /\ exit_status = <<>>

SpecCatalog == InitCatalog /\ [][CatalogNext]_vars

\* the same, continued through the creation request up to the call of
\* wait_for_instance
SpecCreate == InitCatalog /\ [][CatalogNext \/ DCreate]_vars

(***************************************************************************)
(* main --deploy from the start of the process to its end, over a catalog  *)
(* with no location or with one location that has a candidate.            *)
(***************************************************************************)
DeployCatalogs ==
    { <<>>, <<[id |-> LocationIds[1], gpus |-> <<Gpu("lower4090", 3, TRUE)>>]>> }

InitDeploy ==
    /\ pc = "d_get"
    /\ ProbeIdle
    /\ WaitIdle
    /\ ExecIdle
    /\ locations \in DeployCatalogs
    /\ loc_i = 0 /\ location_list = <<>>
    /\ selected_location_id = None /\ post = NoPost /\ d_log = <<>> /\ d_fatal = "none"
    /\ ManageIdle
    /\ entry = "deploy"
    /\ exit_status = <<>>

SpecDeploy == InitDeploy /\ [][DeployNext]_vars

(***************************************************************************)
(* The two entry points that can terminate an instance.                    *)
(***************************************************************************)
InitManage ==
    /\ entry \in {"list", "delete"}
    /\ pc = IF entry = "list" THEN "m_list" ELSE "x_delete"
    /\ ProbeIdle
    /\ WaitIdle
    /\ ExecIdle
    /\ DeployIdle
    /\ ManageIdle
    /\ exit_status = <<>>

SpecManage == InitManage /\ [][ManageNext]_vars

(***************************************************************************)
(* Properties.                                                             *)
(***************************************************************************)
Classes == {"Succeeded", "Disconnected", "ScriptFailed"}
Count(seq, e) == Cardinality({i \in DOMAIN seq : seq[i] = e})
LastEvent == IF events = <<>> THEN "none" ELSE events[Len(events)]

\* the session that just ended has been classified and nothing was done since:
\* transcript, returncode and reboot_detected are those of that session
JustClassified == LastEvent \in Classes

\* the sample lines that contain "rebooting" or "system is going down" in any
\* letter case, listed by hand
RebootLineIds == {"sysdown", "rebooting", "upper"}
SawRebootLine == \E i \in DOMAIN transcript : transcript[i] \in RebootLineIds

C2_RebootNeverSucceeded ==
    JustClassified =>
        /\ reboot_detected => class = "Disconnected"
        /\ class = "Succeeded" => (returncode = <<0>> /\ ~reboot_detected)

\* C3: a session that printed a reboot-indicator line and ended with a non-zero
\* exit code (255 or another) is classified Disconnected, never ScriptFailed.
C3_RebootLineDisconnected ==
    (JustClassified /\ SawRebootLine /\ returncode # <<>> /\ returncode # <<0>>)
        => class = "Disconnected"

C3_Witness ==
    /\ JustClassified
    /\ \E i \in DOMAIN transcript : transcript[i] = "sysdown"
    /\ returncode = <<1>>
    /\ class = "Disconnected"

\* C4: a session that ends with exit code 0 and printed no reboot-indicator
\* line is classified Succeeded whatever else it printed, and the executor has
\* then returned: no probe, upload or session follows.
C4_CleanExitSucceeds ==
    /\ [](  (JustClassified /\ returncode = <<0>> /\ ~SawRebootLine)
            => (class = "Succeeded" /\ outcome = "Succeeded" /\ pc = "e_ret" /\ ppc = "idle"))
    /\ [][outcome = "Succeeded" => (events' = events /\ executions' = executions /\ pc' = pc /\ ppc' = ppc)]_vars

C4_Witness ==
    /\ JustClassified
    /\ returncode = <<0>>
    /\ \E i \in DOMAIN transcript : transcript[i] = "warn"
    /\ ~SawRebootLine
    /\ outcome = "Succeeded"

NotRunningResponse == response.code # 200 \/ response.status # "running"

\* C5: wait_for_instance returns an endpoint only in reaction to a response with
\* status "running"; after any other response (or a non-200 reply) it keeps
\* polling or has returned (None, None), and the probe is not running.
C5_EndpointOnlyWhenRunning ==
    /\ (pc = "w_ret" /\ w_result # <<None, None>>)
          => (response.code = 200 /\ response.status = "running")
    /\ NotRunningResponse
          => /\ ppc = "idle"
             /\ \/ pc \in {"w_sleep", "w_test", "w_get"}
                \/ pc = "w_ret" /\ w_result = <<None, None>>

C5_Witness ==
    /\ pc = "w_ret"
    /\ w_result = <<"203.0.113.7", "20022">>
    /\ w_elapsed > 0

NoSshMapping(r) == \A i \in DOMAIN r.portForwards : r.portForwards[i].internal_port # "22"

\* C6: after a response with status "running" and an address but no mapping for
\* internal port 22 the probe is not started and nothing is returned; polling
\* goes on, and the only return is the timeout at the deadline.
C6_NoMappingKeepsPolling ==
    (response.code = 200 /\ response.status = "running"
        /\ response.ipAddress = "203.0.113.7" /\ NoSshMapping(response))
    => /\ ppc = "idle"
       /\ pc # "w_probe"
       /\ pc = "w_ret" => (w_result = <<None, None>> /\ w_elapsed >= 300)

\* C7: after a response with status error or terminated wait_for_instance has
\* returned the failure: it does not sleep and does not poll again.
C7_ErrorStatusFailsAtOnce ==
    (response.code = 200 /\ response.status \in {"error", "terminated"})
    => (pc = "w_ret" /\ w_result = <<None, None>>)

\* C8: the wait after failed attempt n is 5*n seconds for n in 1..4 and 20
\* seconds for n >= 5; the waits never decrease and never exceed 20 seconds.
C8_BackoffSchedule ==
    /\ [](  /\ p_wait <= 20
            /\ ppc = "sleep" =>
                 /\ p_attempt >= 1
                 /\ p_attempt <= 4 => p_wait = 5 * p_attempt
                 /\ p_attempt >= 5 => p_wait = 20)
    /\ [][p_wait' >= p_wait]_vars

C8_Witness ==
    /\ ppc = "sleep"
    /\ p_attempt = 6
    /\ p_wait = 20

\* C9: no handshake is started at or after the deadline; with a deadline of 60
\* seconds and attempts that take no time and all fail, the handshakes start at
\* 0, 5, 15, 30 and 50 seconds, none starts at 70, and the probe returns false.
C9_DeadlineScenario ==
    /\ ppc = "attempt" => (p_lastStart = p_elapsed /\ p_lastStart < p_timeout)
    /\ (p_timeout = 60 /\ p_durSum = 0 /\ ppc = "attempt")
          => <<p_attempt, p_lastStart>> \in {<<1, 0>>, <<2, 5>>, <<3, 15>>, <<4, 30>>, <<5, 50>>}
    /\ (p_timeout = 60 /\ p_durSum = 0 /\ ppc = "ret" /\ ~p_result /\ p_attempt >= 5)
          => (p_attempt = 5 /\ p_lastStart = 50 /\ p_elapsed = 70)
    /\ (p_timeout = 60 /\ p_durSum = 0 /\ ppc = "test" /\ p_elapsed >= 60)
          => p_attempt = 5

C9_Witness ==
    /\ p_timeout = 60
    /\ p_durSum = 0
    /\ ppc = "ret"
    /\ ~p_result
    /\ p_attempt = 5
    /\ p_lastStart = 50

\* C10: when the first k sessions (k <= max_retries) are classified
\* Disconnected, each re-probe succeeds and session k+1 exits with code 0 and no
\* reboot indicator, the executor returns Succeeded after exactly k+1 sessions.
C10_SucceedsAfterDisconnects ==
    /\ Count(events, "Disconnected") <= max_retries + 1
    /\ LastEvent = "probe_ok"
          => (pc \in {"e_for", "e_popen"} /\ Count(events, "Disconnected") <= max_retries)
    /\ pc = "e_ret" => LastEvent # "probe_ok"
    /\ (JustClassified /\ returncode = <<0>> /\ ~SawRebootLine)
          => /\ outcome = "Succeeded"
             /\ executions = Count(events, "Disconnected") + 1
             /\ attempt + 1 = executions

C10_Witness ==
    /\ max_retries = 1
    /\ outcome = "Succeeded"
    /\ events = <<"upload", "exec", "Disconnected", "settle", "probe", "probe_ok",
                  "exec", "Succeeded">>
    /\ executions = 2

\* C11: a session classified Disconnected when attempt equals max_retries (the
\* first session when max_retries = 0) ends the executor with "retries
\* exhausted": no settle delay and no probe follow.
C11_NoRetryLeft ==
    /\ (JustClassified /\ class = "Disconnected" /\ attempt = max_retries)
          => (outcome = "RetriesExhausted" /\ pc = "e_ret" /\ ppc = "idle")
    /\ outcome = "RetriesExhausted"
          => (LastEvent = "Disconnected" /\ pc = "e_ret" /\ ppc = "idle"
              /\ Count(events, "settle") = attempt /\ Count(events, "probe") = attempt)

C11_Witness ==
    /\ max_retries = 0
    /\ events = <<"upload", "exec", "Disconnected">>
    /\ outcome = "RetriesExhausted"

\* C12: every session is immediately preceded by a transfer of the setup
\* payload: after a disconnect and a successful re-probe the payload is uploaded
\* again before the command is executed again.
C12_UploadBeforeEveryExec ==
    \A i \in DOMAIN events :
        events[i] = "exec" => (i > 1 /\ events[i - 1] = "upload")

\* C18: the 30-second grace period is enforced while the stream is open: the
\* executor is never still reading a stream that has been silent for more than
\* 30 seconds.
C18_GraceIndependentOfOutput ==
    pc = "e_stream" => silent <= 30

\* C19: between a disconnect and the next session come, in this order, the
\* settle delay, a probe with the 300-second deadline and its success; a probe
\* that returns false ends the executor with no further session.
C19_ReprobeBeforeRetry ==
    /\ \A i \in DOMAIN events :
          (events[i] = "exec" /\ \E h \in 1..(i - 1) : events[h] = "exec")
          => (i > 4 /\ SubSeq(events, i - 4, i - 1)
                          = <<"Disconnected", "settle", "probe", "probe_ok">>)
    /\ pc = "e_probe" => (p_timeout = 300 /\ LastEvent = "probe" /\ ppc # "idle")
    /\ \A i \in DOMAIN events :
          events[i] = "probe_timeout"
          => (i = Len(events) /\ pc = "e_ret" /\ outcome = "ReprobeTimedOut")

C19_Witness ==
    /\ executions = 2
    /\ LastEvent = "probe_timeout"
    /\ Count(events, "probe_ok") = 1
    /\ pc = "e_ret"

\* C20: a session that ends with a non-zero exit code other than 255 and that
\* printed no reboot indicator is classified ScriptFailed and the executor
\* returns at once, also when retries remain.
C20_ScriptFailedStops ==
    /\ (JustClassified /\ returncode \notin {<<>>, <<0>>, <<255>>} /\ ~SawRebootLine)
          => (class = "ScriptFailed" /\ outcome = "ScriptFailed" /\ pc = "e_ret"
              /\ ppc = "idle")
    /\ outcome = "ScriptFailed" => (LastEvent = "ScriptFailed" /\ pc = "e_ret" /\ ppc = "idle")

C20_Witness ==
    /\ JustClassified
    /\ returncode = <<1>>
    /\ transcript = <<"warn">>
    /\ attempt < max_retries
    /\ outcome = "ScriptFailed"

(***************************************************************************)
(* Properties of the deploy flow and of the entry points that terminate.   *)
(***************************************************************************)
HasCandidate(location) ==
    \E i \in DOMAIN location.gpus : IsCandidateGpu(location.gpus[i])

\* ids of the locations of the catalog that have a candidate, in catalog order
QualifyingIds(locs) ==
    LET q == SelectSeq(locs, HasCandidate)
    IN  [i \in 1..Len(q) |-> q[i].id]

ListedIds == [i \in DOMAIN location_list |-> location_list[i].id]

LastStep == IF d_log = <<>> THEN "none" ELSE d_log[Len(d_log)]

\* C13: the list of candidates shown to the operator holds exactly the
\* locations of the catalog that have an accelerator whose name contains 4090
\* in any case, with a count above 0 and port forwarding, in catalog order,
\* each location once and no other location.
C13_CandidatesExactlyOnce ==
    pc = "d_prompt" => ListedIds = QualifyingIds(locations)

\* C14: on every entry point a DELETE request is sent only after the operator
\* has typed the confirmation in that invocation.
C14_DeleteOnlyAfterConfirm ==
    deletes # <<>> => confirm = TextYes

\* C15: server_info.json is written at most once per deploy, and only after
\* the readiness wait has returned an endpoint; when the wait fails or the
\* creation is rejected it is not written.
C15_SnapshotOnlyAfterReady ==
    /\ Count(d_log, "snapshot") <= 1
    /\ \A i \in DOMAIN d_log :
          d_log[i] = "snapshot" => \E j \in 1..(i - 1) : d_log[j] = "ready"
    /\ d_fatal \in {"NoConnectionDetails", "ProvisionRejected"} => Count(d_log, "snapshot") = 0

\* C16: the deploy process ends with exit code 0 only when no stage took a
\* failing branch.
C16_ExitCodeReflectsFailure ==
    exit_status = <<0>> => d_fatal = "none"

\* C17: when the reply to the creation request has a status outside 2xx or
\* carries an error field, whatever else it holds, the deploy ends as
\* rejected: one creation request, and no snapshot, readiness wait, probe or
\* remote session.
C17_RejectedOnNonSuccess ==
    (post # NoPost /\ (post.code \notin 200..299 \/ post.dataError \/ post.topError))
    => /\ LastStep = "ProvisionRejected"
       /\ d_fatal = "ProvisionRejected"
       /\ pc = "done"
       /\ Count(d_log, "post") = 1
       /\ Count(d_log, "snapshot") = 0 /\ Count(d_log, "wait") = 0
       /\ ppc = "idle" /\ executions = 0

\* C21: when scp ends with a non-zero exit code the executor returns through
\* the upload-failed branch: no session is started, scp is not run again and
\* no probe is called.
C21_UploadFailureIsFinal ==
    /\ Count(events, "scp_error") > 0
          => /\ events = <<"upload", "scp_error">>
             /\ outcome = "UploadFailed"
             /\ pc = "e_ret"
             /\ executions = 0
             /\ ppc = "idle"
    /\ outcome = "UploadFailed" => events = <<"upload", "scp_error">>

C21_Witness ==
    /\ max_retries = 1
    /\ events = <<"upload", "scp_error">>
    /\ outcome = "UploadFailed"
    /\ pc = "e_ret"

PollReturned == (pc = "probe" /\ ppc = "ret") \/ pc = "w_ret"

\* C22: every polling loop terminates: whatever the status replies and the
\* handshake results are, wait_for_instance returns and the probe returns;
\* neither loop iterates forever.
C22_PollingTerminates == <>[]PollReturned

C22_Witness ==
    /\ pc = "w_ret"
    /\ w_result = <<None, None>>
    /\ w_elapsed >= MaxWait
    /\ response.status = "creating"

DeletedIds == [i \in DOMAIN deletes |-> deletes[i].id]

\* C23: in a batch termination the DELETE requests go out one at a time in the
\* order of the selection, one for each selected entry; a reply other than
\* 200 or 204 is recorded for that entry alone and the remaining entries are
\* still requested.
C23_BatchNotAtomic ==
    entry = "list"
    => /\ Len(deletes) <= Len(instances_to_delete)
       /\ DeletedIds = SubSeq(instances_to_delete, 1, Len(deletes))
       /\ pc = "m_delete" => Len(deletes) = m_idx
       /\ (pc = "done" /\ confirm = TextYes) => Len(deletes) = Len(instances_to_delete)
       /\ \A i \in DOMAIN deletes : deletes[i].ok = (deletes[i].code \in {200, 204})

C23_Witness ==
    /\ entry = "list"
    /\ pc = "done"
    /\ Len(deletes) = 2
    /\ deletes[1].id # deletes[2].id
    /\ deletes[1].code = 500 /\ ~deletes[1].ok
    /\ deletes[2].code = 204 /\ deletes[2].ok

\* position of the first e in the log of the deploy flow, 0 when it is not there
Pos(e) == IF \E i \in DOMAIN d_log : d_log[i] = e
          THEN CHOOSE i \in DOMAIN d_log : d_log[i] = e /\ \A j \in 1..(i - 1) : d_log[j] # e
          ELSE 0

PostAccepted == post.hasData /\ ~post.dataError /\ ~post.topError /\ post.code \in 200..299

WaitPcs == {"w_test", "w_get", "w_sleep", "w_probe", "w_ret"}
ExecPcs == {"e_upload", "e_for", "e_popen", "e_stream", "e_classify", "e_settle",
            "e_probe", "e_ret"}

StagesInOrder ==
    /\ Count(d_log, "get_locations") <= 1 /\ Count(d_log, "post") <= 1
    /\ Count(d_log, "wait") <= 1 /\ Count(d_log, "run") <= 1
    /\ Pos("post") > 0
          => /\ Pos("get_locations") = 1
             /\ Pos("selected") > 1 /\ Pos("selected") < Pos("post")
             /\ \E i \in DOMAIN location_list : location_list[i].id = selected_location_id
    /\ Pos("wait") > 0 => (Pos("post") > 0 /\ Pos("post") < Pos("wait") /\ PostAccepted)
    /\ pc \in WaitPcs => LastStep = "wait"
    /\ Pos("run") > 0 => (Pos("wait") > 0 /\ Pos("ready") > Pos("wait")
                          /\ Pos("run") = Pos("ready") + 1)
    /\ Pos("ready") > 0 => Pos("wait") > 0
    /\ pc \in ExecPcs => LastStep = "run"
    /\ (events # <<>> \/ executions > 0) => Pos("run") > 0
    /\ ppc # "idle" => pc \in {"w_probe", "e_probe"}

\* the wait returns an endpoint only from a probe that returned true after a
\* reply with status running, and the executor is called only with an endpoint
StagesHandOver ==
    /\ (pc # "w_ret" /\ pc' = "w_ret" /\ w_result' # <<None, None>>)
          => (pc = "w_probe" /\ ppc = "ret" /\ p_result
              /\ response.code = 200 /\ response.status = "running")
    /\ (pc # "e_upload" /\ pc' = "e_upload")
          => (pc = "w_ret" /\ w_result # <<None, None>> /\ Truthy(w_result[1]))

C25_OneSessionAtATime ==
    pc = "e_stream" => orphans = 0

\* C26: reboot_detected belongs to one attempt: while a session's stream is
\* read it is set exactly when a line of this session matched (false at the
\* start, never cleared by a later line, reading goes on after the match),
\* and a session without an indicator is classified by its own exit code
\* whatever earlier sessions printed.
C26_FlagPerAttempt ==
    /\ pc = "e_stream" => (reboot_detected = SawRebootLine)
    /\ pc = "e_classify" => (reboot_detected = (SawRebootLine \/ returncode = <<>>))
    /\ (JustClassified /\ returncode \notin {<<>>, <<0>>, <<255>>})
          => ((class = "Disconnected") = SawRebootLine)

C26_Witness ==
    /\ executions = 2
    /\ pc = "e_stream"
    /\ transcript = <<"sysdown", "done">>
    /\ reboot_detected

\* C27: the probe does not cut a backoff sleep short, so it can return false
\* after the deadline, but never later than the deadline plus one backoff wait
\* (at most 20 seconds) plus one handshake (at most 10 seconds); it returns
\* true only for a handshake that was started before the deadline.
C27_BoundedOvershoot ==
    /\ (ppc = "ret" /\ ~p_result)
          => /\ p_elapsed >= p_timeout
             /\ p_elapsed <= p_timeout + BackoffCap + HandshakeTimeout
             /\ p_elapsed <= p_lastStart + p_wait + HandshakeTimeout
    /\ (ppc = "ret" /\ p_result)
          => /\ p_lastStart < p_timeout
             /\ p_elapsed <= p_lastStart + HandshakeTimeout
    /\ ppc = "sleep" => p_lastStart < p_timeout

C27_Witness ==
    /\ p_timeout = 60
    /\ ppc = "ret"
    /\ ~p_result
    /\ p_elapsed = 85
    /\ p_lastStart = 55

\* C28: whatever the operator types as the selection, an instance of the list
\* gets at most one DELETE request, and every DELETE goes to an instance of
\* the list.
C28_AtMostOneDeletePerInstance ==
    entry = "list"
    => /\ \A i, j \in DOMAIN deletes : i # j => deletes[i].id # deletes[j].id
       /\ \A i \in DOMAIN deletes : \E k \in DOMAIN instances : instances[k] = deletes[i].id

OutcomeBranches == {"Succeeded", "RetriesExhausted", "ReprobeTimedOut", "ScriptFailed"}

ReturnedOnce ==
    /\ (pc = "e_ret" /\ outcome # "UploadFailed")
          => IF max_retries >= 0
             THEN outcome \in OutcomeBranches /\ executions >= 1
             ELSE outcome = "LoopCompleted" /\ executions = 0 /\ events = <<"upload">>
    /\ outcome = "LoopCompleted" => (max_retries < 0 /\ pc = "e_ret")
    /\ outcome # "none" => pc = "e_ret"

\* C29: with max_retries >= 0 a call whose upload succeeded returns through
\* exactly one of the branches success, retries exhausted, re-probe timed out
\* or script failure, after at least one session; the fall-through after the
\* loop is reached only with max_retries < 0, after the upload and without
\* any session.
C29_OneOutcomeBranch == []ReturnedOnce /\ [][outcome # "none" => outcome' = outcome]_vars

C29_Witness ==
    /\ max_retries = -1
    /\ pc = "e_ret"
    /\ outcome = "LoopCompleted"
    /\ events = <<"upload">>
    /\ executions = 0

Listed(id) == \E i \in DOMAIN location_list : location_list[i].id = id

\* C30: the creation request is sent only after the operator picked an entry
\* of the list shown and answered y; after q, or when no location was
\* confirmed, the deploy ends without a creation request; the location of the
\* request is always one of the listed candidates.
C30_CreateOnlyAfterChoice ==
    /\ (pc = "d_create" \/ Pos("post") > 0)
          => /\ Pos("selected") > 0
             /\ Pos("post") > 0 => Pos("selected") < Pos("post")
             /\ Listed(selected_location_id)
             /\ Count(d_log, "cancelled") = 0 /\ Count(d_log, "no_location") = 0
    /\ selected_location_id # None => (Pos("selected") > 0 /\ Listed(selected_location_id))
    /\ LastStep \in {"cancelled", "no_location"}
          => (pc = "done" /\ post = NoPost /\ Count(d_log, "post") = 0)
    /\ Pos("selected") = 0 => (post = NoPost /\ pc # "d_create")

C30_Witness ==
    /\ Pos("post") > 0
    /\ PostAccepted
    /\ Len(location_list) = 2
    /\ location_list[1].id # location_list[2].id
    /\ selected_location_id = location_list[2].id

====
